---- MODULE Spec2Model ----
(***************************************************************************)
(* BulkAccountLoader (src/src/driftpy/accounts/bulk_account_loader.py):    *)
(* the registry of watched accounts, the background polling task, the      *)
(* batched getMultipleAccounts requests of one cycle and the               *)
(* reconciliation of their responses against the slot/buffer cache.        *)
(*                                                                         *)
(* One action is one step of the asyncio event loop: a synchronous call    *)
(* of a public method, or the run of a task from one await to the next.    *)
(***************************************************************************)
EXTENDS Integers, Sequences, FiniteSets, TLC

(* ------------------------------ bounds -------------------------------- *)

\* Number of distinct pubkeys a caller may register.
MaxAccounts == 2
\* Total number of calls of add_account and get_callback_id.
MaxCalls == 2
\* Slots the remote may report are 1..MaxSlot.
MaxSlot == 2
\* chunks examined on its own: arrays of 0..MaxLen elements, sizes 1..MaxSize.
MaxLen == 7
MaxSize == 3
\* Number of load() tasks created when _start_loading is called directly.
MaxTasks == 3
\* Number of add_account calls made after the loader was stopped.
MaxLate == 1

(* ------------------------ program constants --------------------------- *)

\* Sub-batch size of getMultipleAccounts. The source's value is 99; the
\* model scales it down so that several sub-batches occur with few accounts.
GET_MULTIPLE_ACCOUNTS_CHUNK_SIZE == 2
\* Sub-batches per request group: the literal 10 in load(), scaled down.
GROUP_SIZE == 2

(* ------------------------------ values -------------------------------- *)

Pubkeys == 1..MaxAccounts

\* The least number of accounts that does not fit one request group.
ManyAccounts == GET_MULTIPLE_ACCOUNTS_CHUNK_SIZE * GROUP_SIZE + 1

\* The pubkeys the maps of the model are defined on.
Keys == 1..(IF MaxAccounts > ManyAccounts THEN MaxAccounts ELSE ManyAccounts)

\* What the remote sends for one account: JSON null (no such account) or
\* an account whose data[0] is a base64 string.
Wire == {"null", "eA==", "eQ=="}

\* A data[0] that is not valid base64 (one character: bad padding).
Malformed == "e"

\* What b64decode does with a string that is not valid base64: it raises.
BinasciiError == "binascii.Error"

\* base64.b64decode on the strings of Wire and on Malformed.
b64decode(s) ==
  CASE s = "eA==" -> "x" [] s = "eQ==" -> "y" [] OTHER -> BinasciiError

\* Optional[bytes] is "None" (Python's None), "x" or "y".

\* BufferAndSlot; a key missing from buffer_and_slot_map maps to NoEntry.
BufferAndSlot(slot, buffer) == [has |-> TRUE, slot |-> slot, buffer |-> buffer]
NoEntry == [has |-> FALSE, slot |-> 0, buffer |-> "None"]

\* self.task: None, or the task object made by create_task.
NoTask == 0

VARIABLES
  task,                \* self.task: NoTask or the number of the task
  callback_id,         \* self.callback_id
  accounts_to_load,    \* self.accounts_to_load, in insertion order
  buffer_and_slot_map, \* self.buffer_and_slot_map
  tasks,               \* number of load() tasks created so far
  loadPc,              \* position of the load() task
  chunks_,             \* the groups of the current cycle (load's local chunks)
  child,               \* state of each load_chunk task of the cycle
  resp,                \* the response the step just taken reconciled
  old_map,             \* buffer_and_slot_map as that step found it
  calls,               \* callback invocations made by the step just taken
  op,                  \* the operation the step just taken was
  ret,                 \* value returned by the step just taken (-1: none)
  issued,              \* ids returned by add_account so far
  nregs,               \* add_account calls made per pubkey
  delivered,           \* highest slot passed to a pubkey's callbacks so far
  stopReturned,        \* unsubscribe() has returned from stopping a started loader
  call                 \* the arguments of a call of chunks examined on its own

vars == <<task, callback_id, accounts_to_load, buffer_and_slot_map, tasks,
          loadPc, chunks_, child, resp, old_map, calls, op, ret, issued,
          nregs, delivered, stopReturned, call>>

(* ------------------------------ helpers ------------------------------- *)

Min(a, b) == IF a < b THEN a ELSE b

RECURSIVE SumOver(_, _)
SumOver(f, S) == IF S = {} THEN 0
                 ELSE LET x == CHOOSE y \in S : TRUE
                      IN f[x] + SumOver(f, S \ {x})

\* Position of pubkey pk in accounts_to_load, 0 when it is not a key.
IndexOf(atl, pk) ==
  IF \E i \in DOMAIN atl : atl[i].pubkey = pk
  THEN CHOOSE i \in DOMAIN atl : atl[i].pubkey = pk
  ELSE 0

\* Mutant of chunks: a last slice shorter than size is dropped.
chunksWhole(array, size) ==
  [k \in 1..(Len(array) \div size) |->
     SubSeq(array, (k - 1) * size + 1, k * size)]

\* chunks(array, size): [array[i : i + size] for i in range(0, len, size)]
chunks(array, size) ==
  [k \in 1..((Len(array) + size - 1) \div size) |->
     SubSeq(array, (k - 1) * size + 1, Min(k * size, Len(array)))]

\* dict[key] = value
Put(f, k, v) == [x \in (DOMAIN f) \cup {k} |-> IF x = k THEN v ELSE f[x]]

\* The keys of a callback dict in iteration order. Keys are inserted with
\* the value of callback_id, which never decreases, so insertion order is
\* ascending order.
RECURSIVE SortedKeys(_)
SortedKeys(S) == IF S = {} THEN <<>>
                 ELSE LET m == CHOOSE x \in S : \A y \in S : x <= y
                      IN <<m>> \o SortedKeys(S \ {m})

(* ----------------------------- add_account ---------------------------- *)

\* No response is being reconciled, nothing was returned: what a step that
\* is not a reconciliation leaves in the record of the step.
NoResp == [g |-> 0, parsed |-> <<>>]

\* No call of chunks is examined on its own.
NoCall == [array |-> <<>>, size |-> 0, group |-> 0]
NoMap == [pk \in Keys |-> NoEntry]

\* line 47: the id add_account gives the new callback.
NewCallbackId(cbid) == cbid

\* Mutant of ShouldStart: the task is started for every new pubkey.
ShouldStartIfNew(existing_size, idx) == idx = 0

\* line 58: whether add_account starts the polling task. existing_size is
\* len(accounts_to_load) before the call, idx the position of the pubkey
\* in accounts_to_load before the call (0: not a key).
ShouldStart(existing_size, idx) == existing_size = 0

\* lines 50-56: accounts_to_load after registering callback cb under id.
Register(atl, pubkey, id, cb) ==
  LET idx == IndexOf(atl, pubkey)
  IN IF idx # 0
     THEN [atl EXCEPT ![idx].callback = Put(@, id, cb)]
     ELSE Append(atl, [pubkey |-> pubkey, callback |-> (id :> cb)])

\* _start_loading: self.task = asyncio.create_task(self.load()). The new
\* task is scheduled and has not run yet.
start_loading ==
  /\ tasks' = tasks + 1
  /\ task' = tasks + 1
  /\ loadPc' = "created"

\* The body of add_account(pubkey, callback), lines 42-61. The callback
\* passed by the n-th call for a pubkey is named n.
AddAccount(pubkey) ==
  /\ LET existing_size == Len(accounts_to_load)
         id == NewCallbackId(callback_id)
         idx == IndexOf(accounts_to_load, pubkey)
     IN /\ accounts_to_load' =
             Register(accounts_to_load, pubkey, id, nregs[pubkey] + 1)
        /\ IF ShouldStart(existing_size, idx)
           THEN start_loading
           ELSE UNCHANGED <<tasks, task, loadPc>>
        /\ ret' = id
        /\ issued' = issued \cup {id}
  /\ nregs' = [nregs EXCEPT ![pubkey] = @ + 1]
  /\ calls' = <<>> /\ resp' = NoResp /\ old_map' = NoMap
  /\ op' = "add_account"
  /\ UNCHANGED <<callback_id, buffer_and_slot_map, chunks_, child,
                 delivered, stopReturned, call>>

\* add_account(pubkey, callback) called by the caller. Pubkeys are opaque:
\* a new one is named by the order of its first registration.
add_account(pubkey) ==
  /\ SumOver(nregs, Pubkeys) + callback_id < MaxCalls
  /\ pubkey <= Len(accounts_to_load) + 1
  /\ AddAccount(pubkey)

\* get_callback_id(): self.callback_id += 1; return self.callback_id
get_callback_id ==
  /\ SumOver(nregs, Pubkeys) + callback_id < MaxCalls
  /\ callback_id' = callback_id + 1
  /\ ret' = callback_id + 1
  /\ calls' = <<>> /\ resp' = NoResp /\ old_map' = NoMap
  /\ op' = "get_callback_id"
  /\ UNCHANGED <<task, accounts_to_load, buffer_and_slot_map, tasks, loadPc,
                 chunks_, child, issued, nregs, delivered, stopReturned,
                 call>>

(* -------------------------------- load -------------------------------- *)

\* list(self.accounts_to_load.values()): the AccountToLoad objects, named
\* by their pubkey (an object is never replaced, so its callback dict is
\* the one accounts_to_load holds when it is read).
Snapshot(atl) == [i \in DOMAIN atl |-> atl[i].pubkey]

\* lines 75-81: the groups of sub-batches of one cycle.
CycleChunks(atl) ==
  chunks(chunks(Snapshot(atl), GET_MULTIPLE_ACCOUNTS_CHUNK_SIZE), GROUP_SIZE)

\* load(): the top of the while loop, reached when the task first runs and
\* when asyncio.sleep(frequency) returns. asyncio.gather makes one
\* load_chunk task per group and load() waits for them all.
load ==
  /\ loadPc \in {"created", "sleep"}
  /\ chunks_' = CycleChunks(accounts_to_load)
  /\ child' = [g \in DOMAIN chunks_' |-> "new"]
  /\ loadPc' = IF chunks_' = <<>> THEN "sleep" ELSE "gather"
  /\ calls' = <<>> /\ resp' = NoResp /\ old_map' = NoMap /\ ret' = -1
  /\ op' = "load"
  /\ UNCHANGED <<task, callback_id, accounts_to_load, buffer_and_slot_map,
                 tasks, issued, nregs, delivered, stopReturned, call>>

\* load_chunk, lines 86-108: the task builds the requests of its group and
\* awaits the POST that carries them.
load_chunk_post(g) ==
  /\ child[g] = "new"
  /\ child' = [child EXCEPT ![g] = "posted"]
  /\ calls' = <<>> /\ resp' = NoResp /\ old_map' = NoMap /\ ret' = -1
  /\ op' = "post"
  /\ UNCHANGED <<task, callback_id, accounts_to_load, buffer_and_slot_map,
                 tasks, loadPc, chunks_, issued, nregs, delivered,
                 stopReturned, call>>

\* line 83: what an exception raised in one load_chunk task does to load().
\* gather (return_exceptions=False) raises it in load(), which has no
\* handler: the task ends. The other load_chunk tasks are left running.
GatherRaises(pc) == IF pc = "gather" THEN "failed" ELSE pc

\* The POST of group g can end. The load_chunk tasks of one gather are
\* made ready together and each runs to its POST before the event loop
\* looks at any I/O, so no POST ends while a task of the cycle has not
\* started.
PostCanEnd(ch, g) ==
  ch[g] = "posted" /\ \A h \in DOMAIN ch : ch[h] # "new"

\* lines 104-110: the POST (or the parse of its body) raises in load_chunk.
transport_error(g) ==
  /\ child[g] = "posted"
  /\ child' = [child EXCEPT ![g] = "failed"]
  /\ loadPc' = GatherRaises(loadPc)
  /\ calls' = <<>> /\ resp' = NoResp /\ old_map' = NoMap /\ ret' = -1
  /\ op' = "transport_error"
  /\ UNCHANGED <<task, callback_id, accounts_to_load, buffer_and_slot_map,
                 tasks, chunks_, issued, nregs, delivered, stopReturned,
                 call>>

(* ------------------------- load_chunk: reconcile ---------------------- *)

\* One element of the parsed batch response: a jsonrpcclient.Error, or an
\* Ok whose result has context.slot and one value per requested pubkey.
ErrorResult == [error |-> TRUE, slot |-> 0, value |-> <<>>]
OkResults(n) ==
  {[error |-> FALSE, slot |-> s, value |-> v] :
     s \in 1..MaxSlot, v \in [1..n -> Wire]}
ResultsFor(sub) == {ErrorResult} \cup OkResults(Len(sub))
RECURSIVE Responses(_)
Responses(chunk) ==
  IF chunk = <<>> THEN {<<>>}
  ELSE {<<h>> \o t : h \in ResultsFor(Head(chunk)),
                     t \in Responses(Tail(chunk))}

\* The responses in which the data of one account is not valid base64.
PositionsOf(r) ==
  {p \in (DOMAIN r) \X (1..GET_MULTIPLE_ACCOUNTS_CHUNK_SIZE) :
     ~r[p[1]].error /\ p[2] <= Len(r[p[1]].value)}
MalformedResponses(chunk) ==
  UNION {{[r EXCEPT ![p[1]].value[p[2]] = Malformed] : p \in PositionsOf(r)} :
           r \in Responses(chunk)}

\* Mutants of Stale: a response of the cached slot is taken as new; no
\* response is taken as stale.
StaleStrict(old, slot) == old.has /\ slot < old.slot
StaleNever(old, slot) == FALSE

\* line 123: the response is no newer than the cache entry.
Stale(old, slot) == old.has /\ slot <= old.slot

\* lines 135-138: the callbacks are to be told and the cache overwritten.
Changed(old, new_buffer) == ~old.has \/ new_buffer # old.buffer

\* lines 126-133: (new_buffer, what is left of result["value"]). pop(0)
\* takes the first value still in the list, None when the list is empty;
\* a None account leaves new_buffer None.
AccountBuffer(account) ==
  IF account # "null" THEN b64decode(account) ELSE "None"
PopAccount(value) ==
  LET account == IF value # <<>> THEN Head(value) ELSE "null"
  IN [new_buffer |-> AccountBuffer(account),
      value |-> IF value # <<>> THEN Tail(value) ELSE <<>>]

\* handle_callbacks: one call cb(buffer, slot) per entry of the callback
\* dict. The test at line 148 compares the type bytes with None and is
\* always true.
handle_callbacks(account_to_load, buffer, slot) ==
  LET ids == SortedKeys(DOMAIN account_to_load.callback)
  IN [i \in DOMAIN ids |->
        [pubkey |-> account_to_load.pubkey, id |-> ids[i],
         cb |-> account_to_load.callback[ids[i]],
         buffer |-> buffer, slot |-> slot]]

\* lines 119-142: the accounts of one sub-batch from position i on.
\* st = [map: buffer_and_slot_map, calls: the callback calls made,
\* raised: b64decode raised]. No handler encloses line 130, so the
\* exception leaves load_chunk: the accounts and sub-batches after the
\* malformed one are not looked at.
RECURSIVE LoadAccounts(_, _, _, _, _, _)
LoadAccounts(atl, chunk_accounts, i, slot, value, st) ==
  IF i > Len(chunk_accounts) THEN st
  ELSE
    LET pubkey == chunk_accounts[i]
        old == st.map[pubkey]
    IN IF Stale(old, slot)
       THEN LoadAccounts(atl, chunk_accounts, i + 1, slot, value, st)
       ELSE
         LET p == PopAccount(value)
         IN IF p.new_buffer = BinasciiError
            THEN [st EXCEPT !.raised = TRUE]
            ELSE IF Changed(old, p.new_buffer)
            THEN LoadAccounts(atl, chunk_accounts, i + 1, slot, p.value,
                   [map |-> [st.map EXCEPT
                               ![pubkey] = BufferAndSlot(slot, p.new_buffer)],
                    calls |-> st.calls \o
                      handle_callbacks(atl[IndexOf(atl, pubkey)],
                                       p.new_buffer, slot),
                    raised |-> FALSE])
            ELSE LoadAccounts(atl, chunk_accounts, i + 1, slot, p.value, st)

\* Mutant of LoadResults: an Error result ends the loop over the results.
RECURSIVE LoadResultsBreak(_, _, _, _, _)
LoadResultsBreak(atl, chunk, parsed_resp, j, st) ==
  IF j > Len(chunk) \/ j > Len(parsed_resp) \/ st.raised THEN st
  ELSE IF parsed_resp[j].error
       THEN st
       ELSE LoadResultsBreak(atl, chunk, parsed_resp, j + 1,
              LoadAccounts(atl, chunk[j], 1, parsed_resp[j].slot,
                           parsed_resp[j].value, st))

\* lines 112-142: zip(parsed_resp, chunk) from position j on.
RECURSIVE LoadResults(_, _, _, _, _)
LoadResults(atl, chunk, parsed_resp, j, st) ==
  IF j > Len(chunk) \/ j > Len(parsed_resp) \/ st.raised THEN st
  ELSE IF parsed_resp[j].error
       THEN LoadResults(atl, chunk, parsed_resp, j + 1, st)
       ELSE LoadResults(atl, chunk, parsed_resp, j + 1,
              LoadAccounts(atl, chunk[j], 1, parsed_resp[j].slot,
                           parsed_resp[j].value, st))

(* ----------------------------- unsubscribe ---------------------------- *)

\* The load() task has been created and has not ended.
LoadAlive(pc) == pc \in {"created", "gather", "sleep"}

\* Mutant of Cancel: the task is left running.
CancelNothing(pc) == pc

\* Task.cancel() on the load() task: a task that has ended is left as it
\* is, a live one is cancelled.
Cancel(pc) == IF LoadAlive(pc) THEN "cancelled" ELSE pc

\* Cancelling load() while it waits in gather cancels the load_chunk tasks
\* that have not ended. A cancelled task that is not running gets
\* CancelledError at its await and runs no further; the task whose step is
\* running (running # 0: the one a callback was called from) has no later
\* await and runs its step to the end.
CancelChildren(pc, ch, running) ==
  IF pc = "gather"
  THEN [g \in DOMAIN ch |->
          IF g # running /\ ch[g] \in {"new", "posted"}
          THEN "cancelled" ELSE ch[g]]
  ELSE ch

\* line 152: unsubscribe() acts.
HasTask(t) == t # NoTask

\* Mutant of unsubscribe: stopping the loader also empties the cache.
unsubscribeClearing ==
  /\ IF HasTask(task)
     THEN /\ loadPc' = Cancel(loadPc)
          /\ child' = CancelChildren(loadPc, child, 0)
          /\ task' = NoTask
          /\ buffer_and_slot_map' = NoMap
     ELSE UNCHANGED <<loadPc, child, task, buffer_and_slot_map>>
  /\ stopReturned' = (stopReturned \/ HasTask(task))
  /\ calls' = <<>> /\ resp' = NoResp /\ old_map' = NoMap /\ ret' = -1
  /\ op' = "unsubscribe"
  /\ UNCHANGED <<callback_id, accounts_to_load, tasks, chunks_, issued,
                 nregs, delivered, call>>

\* unsubscribe(), lines 151-154, called between two steps of the event loop.
unsubscribe ==
  /\ IF HasTask(task)
     THEN /\ loadPc' = Cancel(loadPc)
          /\ child' = CancelChildren(loadPc, child, 0)
          /\ task' = NoTask
     ELSE UNCHANGED <<loadPc, child, task>>
  /\ stopReturned' = (stopReturned \/ HasTask(task))
  /\ calls' = <<>> /\ resp' = NoResp /\ old_map' = NoMap /\ ret' = -1
  /\ op' = "unsubscribe"
  /\ UNCHANGED <<callback_id, accounts_to_load, buffer_and_slot_map, tasks,
                 chunks_, issued, nregs, delivered, call>>

(* --------------------- load_chunk: response received ------------------ *)

\* The slots passed to the callbacks of pubkey pk in a sequence of calls.
SlotsOf(cs, pk) == {cs[i].slot : i \in {j \in DOMAIN cs : cs[j].pubkey = pk}}
MaxOf(S) == CHOOSE x \in S : \A y \in S : y <= x

\* load() when every load_chunk task of the gather has ended normally:
\* it goes on to asyncio.sleep(frequency).
GatherReturns(pc, ch) ==
  IF pc = "gather" /\ \A g \in DOMAIN ch : ch[g] = "done" THEN "sleep" ELSE pc

\* How the load_chunk task ends: by the exception of b64decode, or by
\* returning.
ChildEnd(raised) == IF raised THEN "failed" ELSE "done"

\* load_chunk, lines 110-142: the POST of group g returns parsed_resp and
\* the task runs to its end. The callbacks run inline; the k-th call made
\* (k = 0: none) calls unsubscribe() before it returns.
reconcile(g, parsed_resp) ==
  /\ \E st \in {LoadResults(accounts_to_load, chunks_[g], parsed_resp, 1,
                            [map |-> buffer_and_slot_map, calls |-> <<>>,
                             raised |-> FALSE])} :
     \E k \in 0..Len(st.calls) :
       LET stops == k # 0
           acts == stops /\ HasTask(task)
           pc1 == IF acts THEN Cancel(loadPc) ELSE loadPc
           ch1 == IF acts THEN CancelChildren(loadPc, child, g) ELSE child
           ch2 == [ch1 EXCEPT ![g] = ChildEnd(st.raised)]
       IN /\ buffer_and_slot_map' = st.map
          /\ calls' = [i \in DOMAIN st.calls |->
                         [pubkey |-> st.calls[i].pubkey, id |-> st.calls[i].id,
                          cb |-> st.calls[i].cb, buffer |-> st.calls[i].buffer,
                          slot |-> st.calls[i].slot,
                          afterStop |-> stopReturned \/ (acts /\ i > k)]]
          /\ delivered' = [pk \in Keys |->
                             MaxOf(SlotsOf(st.calls, pk) \cup {delivered[pk]})]
          /\ task' = IF stops THEN NoTask ELSE task
          /\ stopReturned' = (stopReturned \/ acts)
          /\ child' = ch2
          /\ loadPc' = IF st.raised THEN GatherRaises(pc1)
                        ELSE GatherReturns(pc1, ch2)
  /\ resp' = [g |-> g, parsed |-> parsed_resp]
  /\ old_map' = buffer_and_slot_map
  /\ ret' = -1
  /\ op' = "reconcile"
  /\ UNCHANGED <<callback_id, accounts_to_load, tasks, chunks_, issued, nregs,
                 call>>

(* --------------------------- specification ---------------------------- *)

Init ==
  /\ task = NoTask
  /\ callback_id = 0
  /\ accounts_to_load = <<>>
  /\ buffer_and_slot_map = NoMap
  /\ tasks = 0
  /\ loadPc = "none"
  /\ chunks_ = <<>>
  /\ child = <<>>
  /\ resp = NoResp
  /\ old_map = NoMap
  /\ calls = <<>>
  /\ op = "init"
  /\ ret = -1
  /\ issued = {}
  /\ nregs = [pk \in Keys |-> 0]
  /\ delivered = [pk \in Keys |-> 0]
  /\ stopReturned = FALSE
  /\ call = NoCall

Next ==
  \/ \E pubkey \in Pubkeys : add_account(pubkey)
  \/ get_callback_id
  \/ load
  \/ \E g \in DOMAIN child : load_chunk_post(g)
  \/ \E g \in DOMAIN child : PostCanEnd(child, g) /\ transport_error(g)
  \/ \E g \in DOMAIN child :
       /\ PostCanEnd(child, g)
       /\ \E r \in Responses(chunks_[g]) : reconcile(g, r)
  \/ \E g \in DOMAIN child :
       /\ PostCanEnd(child, g)
       /\ \E r \in MalformedResponses(chunks_[g]) : reconcile(g, r)
  \/ unsubscribe

Spec == Init /\ [][Next]_vars

\* The POST of group g ends: with a response, or with an exception.
Respond(g) ==
  /\ PostCanEnd(child, g)
  /\ \/ \E r \in Responses(chunks_[g]) : reconcile(g, r)
     \/ \E r \in MalformedResponses(chunks_[g]) : reconcile(g, r)
     \/ transport_error(g)

\* The event loop runs every task that can run: asyncio.sleep returns and
\* the load() task goes round its loop, a load_chunk task created by gather
\* runs to its POST, and every POST ends. Nothing is assumed of the calls
\* the caller makes.
Fairness ==
  /\ WF_vars(load)
  /\ WF_vars(\E g \in DOMAIN child : load_chunk_post(g))
  /\ WF_vars(\E g \in DOMAIN child : Respond(g))

FairSpec == Spec /\ Fairness

(* ------------------- more accounts than one group --------------------- *)

\* The responses in which every sub-batch is an error, or an Ok whose
\* accounts all carry the same data.
UniformResults(n) ==
  {[error |-> FALSE, slot |-> s, value |-> [i \in 1..n |-> w]] :
     s \in 1..MaxSlot, w \in Wire \ {"null"}}
RECURSIVE UniformResponses(_)
UniformResponses(chunk) ==
  IF chunk = <<>> THEN {<<>>}
  ELSE {<<h>> \o t : h \in {ErrorResult} \cup UniformResults(Len(Head(chunk))),
                     t \in UniformResponses(Tail(chunk))}

\* The loader after add_account(pubkey, callback) was called once for each
\* of ManyAccounts pubkeys: every call returned id 0, the first one
\* created the task, which has not run yet.
InitMany ==
  /\ task = 1
  /\ callback_id = 0
  /\ accounts_to_load =
       [i \in 1..ManyAccounts |-> [pubkey |-> i, callback |-> (0 :> 1)]]
  /\ buffer_and_slot_map = NoMap
  /\ tasks = 1
  /\ loadPc = "created"
  /\ chunks_ = <<>>
  /\ child = <<>>
  /\ resp = NoResp
  /\ old_map = NoMap
  /\ calls = <<>>
  /\ op = "add_account"
  /\ ret = 0
  /\ issued = {0}
  /\ nregs = [pk \in Keys |-> IF pk <= ManyAccounts THEN 1 ELSE 0]
  /\ delivered = [pk \in Keys |-> 0]
  /\ stopReturned = FALSE
  /\ call = NoCall

\* The pubkeys registered again after a stop: the first of the first
\* group and the one of the last group.
LatePubkeys == {1, ManyAccounts}

\* add_account(pubkey, callback) for a pubkey that is registered, called
\* after unsubscribe() has stopped the loader.
add_account_stopped(pubkey) ==
  /\ stopReturned
  /\ SumOver(nregs, Keys) < ManyAccounts + MaxLate
  /\ AddAccount(pubkey)

NextMany ==
  \/ load
  \/ \E g \in DOMAIN child : load_chunk_post(g)
  \/ \E g \in DOMAIN child : PostCanEnd(child, g) /\ transport_error(g)
  \/ \E g \in DOMAIN child :
       /\ PostCanEnd(child, g)
       /\ \E r \in UniformResponses(chunks_[g]) : reconcile(g, r)
  \/ unsubscribe
  \/ \E pubkey \in LatePubkeys : add_account_stopped(pubkey)

SpecMany == InitMany /\ [][NextMany]_vars

(* ------------------- _start_loading called directly ------------------ *)

\* _start_loading() called by the caller itself, lines 67-68. A task whose
\* handle is overwritten is not cancelled; loadPc is the position of the
\* task created last.
start_loading_call ==
  /\ tasks < MaxTasks
  /\ start_loading
  /\ calls' = <<>> /\ resp' = NoResp /\ old_map' = NoMap /\ ret' = -1
  /\ op' = "_start_loading"
  /\ UNCHANGED <<callback_id, accounts_to_load, buffer_and_slot_map, chunks_,
                 child, issued, nregs, delivered, stopReturned, call>>

\* The synchronous calls a caller makes before it yields to the event
\* loop: no task has run yet.
NextStart ==
  \/ \E pubkey \in Pubkeys : add_account(pubkey)
  \/ get_callback_id
  \/ start_loading_call
  \/ unsubscribe

SpecStart == Init /\ [][NextStart]_vars

(* ---------------------- chunks examined on its own -------------------- *)

\* The arrays and sizes chunks is called with.
Calls ==
  {[array |-> [i \in 1..n |-> i], size |-> f, group |-> g] :
     n \in 0..MaxLen, f \in 1..MaxSize, g \in 1..MaxSize}

\* lines 75-81 with the array and the two sizes as arguments.
partition ==
  /\ call # NoCall
  /\ op = "init"
  /\ chunks_' = chunks(chunks(call.array, call.size), call.group)
  /\ op' = "chunks"
  /\ UNCHANGED <<task, callback_id, accounts_to_load, buffer_and_slot_map,
                 tasks, loadPc, child, resp, old_map, calls, ret, issued,
                 nregs, delivered, stopReturned, call>>

InitChunks ==
  /\ call \in Calls
  /\ task = NoTask
  /\ callback_id = 0
  /\ accounts_to_load = <<>>
  /\ buffer_and_slot_map = NoMap
  /\ tasks = 0
  /\ loadPc = "none"
  /\ chunks_ = <<>>
  /\ child = <<>>
  /\ resp = NoResp
  /\ old_map = NoMap
  /\ calls = <<>>
  /\ op = "init"
  /\ ret = -1
  /\ issued = {}
  /\ nregs = [pk \in Keys |-> 0]
  /\ delivered = [pk \in Keys |-> 0]
  /\ stopReturned = FALSE

NextChunks == partition

SpecChunks == InitChunks /\ [][NextChunks]_vars

(* ------------------------------ properties ---------------------------- *)

\* What the response just reconciled says of each pubkey it covers: the
\* slot of the pubkey's sub-batch and the buffer at the pubkey's own
\* position in that sub-batch's value list.
Observed ==
  IF resp.g = 0 THEN {}
  ELSE UNION {
    {[pubkey |-> chunks_[resp.g][j][i], slot |-> resp.parsed[j].slot,
      buffer |-> AccountBuffer(resp.parsed[j].value[i])] :
       i \in DOMAIN chunks_[resp.g][j]} :
    j \in {n \in DOMAIN resp.parsed : ~resp.parsed[n].error}}

\* Every account in the response just reconciled is null or has data that
\* is valid base64.
WellFormed ==
  \A j \in DOMAIN resp.parsed : \A i \in DOMAIN resp.parsed[j].value :
    resp.parsed[j].value[i] # Malformed

\* The calls the step just taken made to callbacks of pubkey pk.
CallsFor(pk) == {i \in DOMAIN calls : calls[i].pubkey = pk}

\* The cache entry of o's pubkey before the step, and after it.
Old(o) == old_map[o.pubkey]
New(o) == buffer_and_slot_map[o.pubkey]

\* C1 (as claimed): a callback of a pubkey with a cache entry is called only
\* when the fetched slot is greater than the cached slot and the buffer
\* fetched for that pubkey differs from the cached buffer; a pubkey with no
\* cache entry has its callbacks called on its first observation.
C1_Claim ==
  (op = "reconcile" /\ WellFormed) =>
    \A o \in Observed :
      /\ (Old(o).has /\ CallsFor(o.pubkey) # {}) =>
            (o.slot > Old(o).slot /\ o.buffer # Old(o).buffer)
      /\ ~Old(o).has => CallsFor(o.pubkey) # {}

\* C2: a response whose slot is at most the cached slot of a pubkey leaves
\* that pubkey's cache entry as it was and calls none of its callbacks,
\* whatever buffer the response carries for it.
C2_StaleIgnored ==
  op = "reconcile" =>
    \A o \in Observed :
      (Old(o).has /\ o.slot <= Old(o).slot) =>
         (New(o) = Old(o) /\ CallsFor(o.pubkey) = {})

\* C2 witness: a stale response that carries another buffer than the cached
\* one was reconciled.
C2_Witness ==
  /\ op = "reconcile"
  /\ \E o \in Observed :
       Old(o).has /\ o.slot <= Old(o).slot /\ o.buffer # Old(o).buffer

\* C3 (as claimed): after two add_account calls for one pubkey, a dispatch
\* for that pubkey calls each of the two callbacks exactly once, both with
\* the same (buffer, slot).
C3_Claim ==
  op = "reconcile" =>
    \A pk \in Pubkeys :
      (nregs[pk] = 2 /\ CallsFor(pk) # {}) =>
        /\ \A cb \in 1..2 :
             Cardinality({i \in CallsFor(pk) : calls[i].cb = cb}) = 1
        /\ \A i, j \in CallsFor(pk) :
             calls[i].buffer = calls[j].buffer /\ calls[i].slot = calls[j].slot

\* C4 (as claimed): the ids add_account returns are strictly increasing in
\* call order and never repeat, and the callback dict of a pubkey has as
\* many entries as add_account calls were made for it.
C4_Claim ==
  /\ [][op' = "add_account" =>
          (ret' \notin issued /\ \A id \in issued : ret' > id)]_vars
  /\ [](\A i \in DOMAIN accounts_to_load :
          Cardinality(DOMAIN accounts_to_load[i].callback) =
            nregs[accounts_to_load[i].pubkey])

\* C5: the slot of a pubkey's cache entry never decreases (and an entry is
\* never removed), and every slot passed to a pubkey's callbacks is greater
\* than every slot passed to them by an earlier dispatch; within one
\* dispatch each callback of the pubkey is called at most once.
C5_Monotonic ==
  [][/\ \A pk \in Pubkeys :
          /\ buffer_and_slot_map[pk].has => buffer_and_slot_map'[pk].has
          /\ buffer_and_slot_map'[pk].slot >= buffer_and_slot_map[pk].slot
     /\ op' = "reconcile" =>
          /\ \A i \in DOMAIN calls' : calls'[i].slot > delivered[calls'[i].pubkey]
          /\ \A i, j \in DOMAIN calls' :
               (calls'[i].pubkey = calls'[j].pubkey /\ calls'[i].id = calls'[j].id)
                 => i = j]_vars

\* C5 witness: the callbacks of a pubkey that has a cache entry were called
\* with a slot greater than the cached one.
C5_Witness ==
  /\ op = "reconcile"
  /\ \E i \in DOMAIN calls :
       /\ old_map[calls[i].pubkey].has
       /\ calls[i].slot > old_map[calls[i].pubkey].slot
       /\ delivered[calls[i].pubkey] = calls[i].slot

\* C6 (as claimed): no callback is called once an unsubscribe() that
\* stopped the loader has returned.
C6_Claim == \A i \in DOMAIN calls : ~calls[i].afterStop

\* C7 (as claimed): an error of a request never ends the polling loop: the
\* load() task ends only cancelled by unsubscribe().
C7_Claim == loadPc # "failed"

\* C8: the polling task is created by the add_account call that finds
\* accounts_to_load empty and by no other step, so at most one load() task
\* is ever created.
C8_StartOnce ==
  /\ [][tasks' # tasks =>
          (op' = "add_account" /\ accounts_to_load = <<>> /\ tasks = 0)]_vars
  /\ [][(op' = "add_account" /\ accounts_to_load = <<>>) =>
          (tasks' = 1 /\ task' = 1 /\ loadPc' = "created")]_vars
  /\ [](tasks <= 1)

\* C8 witness: add_account for a new pubkey returned after unsubscribe()
\* and there is still only the one task, cancelled.
C8_Witness ==
  /\ op = "add_account"
  /\ stopReturned
  /\ Len(accounts_to_load) = 2
  /\ tasks = 1
  /\ loadPc = "cancelled"

\* The state of the loader itself (without the record of the last step).
program == <<task, callback_id, accounts_to_load, buffer_and_slot_map,
             tasks, loadPc, chunks_, child>>

\* C9: a step that clears a task handle whose task is alive cancels the
\* task and every request in flight; a cancelled task starts no cycle and
\* issues no request again; unsubscribe() with no task handle changes
\* nothing.
C9_Stop ==
  /\ [][(HasTask(task) /\ ~HasTask(task') /\ LoadAlive(loadPc)) =>
          /\ loadPc' = "cancelled"
          /\ \A g \in DOMAIN child' : child'[g] \notin {"new", "posted"}]_vars
  /\ [][loadPc = "cancelled" =>
          (loadPc' = "cancelled" /\ op' \notin {"load", "post"})]_vars
  /\ [][(op' = "unsubscribe" /\ ~HasTask(task)) => UNCHANGED program]_vars
  /\ [](LoadAlive(loadPc) => HasTask(task))

\* C9 witness: unsubscribe() has returned, the load() task and a request
\* that was in flight are cancelled and the handle is cleared.
C9_Witness ==
  /\ op = "unsubscribe"
  /\ loadPc = "cancelled"
  /\ \E g \in DOMAIN child : child[g] = "cancelled"
  /\ ~HasTask(task)

\* C10 (as claimed): a response with a greater slot and the cached buffer
\* for a pubkey calls none of its callbacks, and one with a greater slot
\* and another buffer calls them with that buffer and leaves (slot, buffer)
\* in the cache.
C10_Claim ==
  (op = "reconcile" /\ WellFormed) =>
    \A o \in Observed :
      (Old(o).has /\ o.slot > Old(o).slot) =>
        IF o.buffer = Old(o).buffer
        THEN CallsFor(o.pubkey) = {}
        ELSE /\ CallsFor(o.pubkey) # {}
             /\ \A i \in CallsFor(o.pubkey) :
                  calls[i].buffer = o.buffer /\ calls[i].slot = o.slot
             /\ New(o) = BufferAndSlot(o.slot, o.buffer)

\* C11 (as claimed): when a successful response covers a pubkey that has no
\* cache entry, every callback registered for the pubkey is called, once,
\* with the buffer at the pubkey's position (None for a null account) and
\* the response's slot, and the cache entry becomes that (slot, buffer).
C11_Claim ==
  (op = "reconcile" /\ WellFormed) =>
    \A o \in Observed :
      ~Old(o).has =>
        /\ \A cb \in 1..nregs[o.pubkey] :
             Cardinality({i \in CallsFor(o.pubkey) : calls[i].cb = cb}) = 1
        /\ \A i \in CallsFor(o.pubkey) :
             calls[i].buffer = o.buffer /\ calls[i].slot = o.slot
        /\ New(o) = BufferAndSlot(o.slot, o.buffer)

\* The least k with k * b >= a.
Ceil(a, b) == CHOOSE k \in 0..a : k * b >= a /\ (k = 0 \/ (k - 1) * b < a)

\* The concatenation of a sequence of sequences.
RECURSIVE Concat(_)
Concat(ss) == IF ss = <<>> THEN <<>> ELSE Head(ss) \o Concat(Tail(ss))

\* C12: chunks(chunks(array, F), G) of an array of N elements is
\* ceil(ceil(N/F)/G) groups of at most G sub-batches each, ceil(N/F)
\* sub-batches in all, each of at most F elements, and the sub-batches
\* taken in order concatenate to the array (so every element is in exactly
\* one sub-batch and the order is kept).
C12_Partition ==
  op = "chunks" =>
    LET N == Len(call.array)
        F == call.size
        G == call.group
        subs == Concat(chunks_)
    IN /\ Len(subs) = Ceil(N, F)
       /\ \A k \in DOMAIN subs : Len(subs[k]) >= 1 /\ Len(subs[k]) <= F
       /\ Len(chunks_) = Ceil(Ceil(N, F), G)
       /\ \A g \in DOMAIN chunks_ : Len(chunks_[g]) >= 1 /\ Len(chunks_[g]) <= G
       /\ Concat(subs) = call.array

\* C12 witness: an array that fills neither its last sub-batch nor its last
\* group was partitioned into more than one group.
C12_Witness ==
  /\ op = "chunks"
  /\ Len(chunks_) >= 2
  /\ Len(chunks_[Len(chunks_)]) < call.group
  /\ Len(Concat(chunks_)[Len(Concat(chunks_))]) < call.size

\* C13 (as claimed): _start_loading() called while the task of the handle
\* is alive creates no task and leaves the handle as it is.
C13_Claim ==
  [][(op' = "_start_loading" /\ HasTask(task) /\ LoadAlive(loadPc)) =>
       (tasks' = tasks /\ task' = task)]_vars

\* C14 (as claimed): the buffer passed to the callbacks of a pubkey, and
\* the buffer compared with and written to its cache entry, is the one at
\* the pubkey's own position in the value list of its sub-batch, also when
\* pubkeys before it in the sub-batch were skipped as stale.
C14_Claim ==
  (op = "reconcile" /\ WellFormed) =>
    \A o \in Observed :
      /\ \A i \in CallsFor(o.pubkey) : calls[i].buffer = o.buffer
      /\ New(o) # Old(o) => New(o).buffer = o.buffer
      /\ (~Stale(Old(o), o.slot) /\ Changed(Old(o), o.buffer)) =>
            New(o) = BufferAndSlot(o.slot, o.buffer)

\* The elements of seq at the positions where the response r has no Error.
RECURSIVE OkPart(_, _)
OkPart(seq, r) ==
  IF r = <<>> \/ seq = <<>> THEN <<>>
  ELSE (IF Head(r).error THEN <<>> ELSE <<Head(seq)>>)
         \o OkPart(Tail(seq), Tail(r))

\* The response just reconciled has an Error for sub-batch j.
ErrorAt(j) == j \in DOMAIN resp.parsed /\ resp.parsed[j].error

\* What reconciling only the sub-batches without Error, each against its
\* own result, does to the cache the step found.
OkAlone ==
  LoadResults(accounts_to_load, OkPart(chunks_[resp.g], resp.parsed),
              OkPart(resp.parsed, resp.parsed), 1,
              [map |-> old_map, calls |-> <<>>, raised |-> FALSE])

\* The pubkeys requested by the cycle.
Requested == {Concat(Concat(chunks_))[i] : i \in DOMAIN Concat(Concat(chunks_))}

\* C15: a sub-batch whose result is an Error calls no callback and changes
\* no cache entry of its pubkeys; the cache and the calls after the step
\* are those of reconciling the other sub-batches of the group alone; the
\* step does not end the load() task; and the next cycle requests every
\* pubkey of accounts_to_load again.
C15_ErrorIsolated ==
  /\ [](op = "reconcile" =>
          /\ \A j \in DOMAIN resp.parsed :
               ErrorAt(j) =>
                 \A i \in DOMAIN chunks_[resp.g][j] :
                   LET pk == chunks_[resp.g][j][i]
                   IN CallsFor(pk) = {} /\
                      buffer_and_slot_map[pk] = old_map[pk]
          /\ buffer_and_slot_map = OkAlone.map
          /\ Len(calls) = Len(OkAlone.calls)
          /\ \A i \in DOMAIN calls :
               /\ calls[i].pubkey = OkAlone.calls[i].pubkey
               /\ calls[i].buffer = OkAlone.calls[i].buffer
               /\ calls[i].slot = OkAlone.calls[i].slot)
  /\ [][(op' = "reconcile" /\ \E j \in DOMAIN resp'.parsed : resp'.parsed[j].error) =>
          /\ child'[resp'.g] = "done"
          /\ (loadPc = "gather" /\ HasTask(task')) => loadPc' \in {"gather", "sleep"}
          /\ loadPc' = "failed" => loadPc = "failed"]_vars
  /\ [](op = "load" =>
          \A i \in DOMAIN accounts_to_load :
            accounts_to_load[i].pubkey \in Requested)

\* C15 witness: in a group of two sub-batches the first result was an Error
\* and the second an Ok; the callbacks of the second sub-batch's pubkeys
\* were called and the load() task goes on to sleep.
C15_Witness ==
  /\ op = "reconcile"
  /\ Len(resp.parsed) = 2
  /\ ErrorAt(1) /\ ~ErrorAt(2)
  /\ \A i \in DOMAIN chunks_[resp.g][2] : CallsFor(chunks_[resp.g][2][i]) # {}
  /\ \A i \in DOMAIN chunks_[resp.g][1] : ~buffer_and_slot_map[chunks_[resp.g][1][i]].has
  /\ loadPc = "sleep"

\* C16 (as claimed): when the data of one account of a response is not
\* valid base64, load_chunk still ends normally, and every other pubkey of
\* the response that has no cache entry yet gets one in this cycle.
C16_Claim ==
  (op = "reconcile" /\ ~WellFormed) =>
    /\ child[resp.g] = "done"
    /\ \A o \in Observed :
         (~Old(o).has /\ o.buffer # BinasciiError) => New(o).has

\* pubkey pk is a key of accounts_to_load.
Registered(pk) == IndexOf(accounts_to_load, pk) # 0

\* C17 (as claimed): a live load() task ends only by being cancelled by
\* unsubscribe(); every cycle requests every pubkey registered when it
\* starts; and, the event loop being fair, a registered pubkey is
\* eventually requested by a cycle that starts after its registration,
\* unless the loader is stopped.
C17_Claim ==
  /\ [][LoadAlive(loadPc) => (LoadAlive(loadPc') \/ loadPc' = "cancelled")]_vars
  /\ [](op = "load" => \A pk \in Pubkeys : Registered(pk) => pk \in Requested)
  /\ \A pk \in Pubkeys :
       (op = "add_account" /\ Registered(pk)) ~>
         ((op = "load" /\ pk \in Requested) \/ stopReturned)

\* The sub-batch requests (getMultipleAccounts calls) carried by the POSTs
\* that have been sent and have not ended.
InFlight ==
  SumOver([g \in DOMAIN child |-> Len(chunks_[g])],
          {g \in DOMAIN child : child[g] = "posted"})

\* C18 (as claimed): at most GROUP_SIZE sub-batch requests are in flight
\* at any time.
C18_Claim == InFlight <= GROUP_SIZE

\* C19: buffer_and_slot_map changes only in a reconciliation step of
\* load_chunk; add_account, get_callback_id and unsubscribe leave it as it
\* is; unsubscribe leaves accounts_to_load as it is; and every pubkey with
\* a cache entry is a key of accounts_to_load.
C19_CacheFrame ==
  /\ [][buffer_and_slot_map' # buffer_and_slot_map => op' = "reconcile"]_vars
  /\ [][op' \in {"add_account", "get_callback_id", "unsubscribe"} =>
          UNCHANGED buffer_and_slot_map]_vars
  /\ [][op' = "unsubscribe" => UNCHANGED accounts_to_load]_vars
  /\ [](\A pk \in Keys : buffer_and_slot_map[pk].has => Registered(pk))

\* C19 witness: unsubscribe() has stopped a loader that watches two
\* pubkeys and has a cache entry for each.
C19_Witness ==
  /\ op = "unsubscribe"
  /\ stopReturned /\ loadPc = "cancelled"
  /\ Len(accounts_to_load) = 2
  /\ \A pk \in 1..2 : buffer_and_slot_map[pk].has

\* Under SpecMany every pubkey has its callback 1 from the start and
\* add_account is called again only after the loader was stopped.
RegisteredAfterStop(c) == c.cb > 1

\* C20 (as claimed): once unsubscribe() has stopped the loader, no step
\* gives it a task handle or a live load() task again, no cycle is started
\* and no POST is sent, and no callback registered after the stop is ever
\* called.
C20_Claim ==
  /\ [][stopReturned => (~HasTask(task') /\ ~LoadAlive(loadPc'))]_vars
  /\ [][stopReturned => op' \notin {"load", "post"}]_vars
  /\ [](\A i \in DOMAIN calls : ~RegisteredAfterStop(calls[i]))

====
